---- MODULE Spec2Model ----
(***************************************************************************)
(* sentinelsat/sentinel.py: SentinelAPI.download and SentinelAPI.download_all *)
(* as a state machine over the catalog, the download directory and the      *)
(* client's call stack.                                                      *)
(*                                                                           *)
(* Strings whose characters matter (checksums, the pycurl version) are      *)
(* sequences of character codes.  File sizes are counted in units of        *)
(* 2 ** 30 bytes.                                                            *)
(***************************************************************************)
EXTENDS Integers, Sequences, FiniteSets, TLC

\* ------------------------------------------------------------------ bounds
MaxProducts == 2      \* entries of a search response, ids known to the catalog
MaxAttempts == 2      \* largest max_attempts passed to download_all
MaxSize == 3          \* largest file / product size, in units of 2 ** 30 bytes
MaxInitFiles == 1     \* files in the download directory before the first call
MaxDay == 2           \* days of January 2015 that date arguments name
MaxKeywords == 2      \* keyword arguments of a query call

\* ------------------------------------------------------- program constants
TwoGiB == 2           \* 2 ** 31 bytes (sentinel.py:379), in units of 2 ** 30 bytes

\* -------------------------------------------------------------- exceptions
FatalSignals == {"KeyboardInterrupt", "SystemExit", "SystemError", "MemoryError"}
SentinelAPIError == "SentinelAPIError"
InvalidChecksumError == "InvalidChecksumError"
TransportError == "ConnectionError"      \* requests / pycurl transport failure
SchemaError == "KeyError"                \* expected key missing in a 2xx JSON body
NoException == "none"

\* ----------------------------------------------------------------- strings
\* str.lower() on a sequence of character codes
lower(s) == [k \in 1..Len(s) |-> IF s[k] >= 65 /\ s[k] <= 90 THEN s[k] + 32 ELSE s[k]]
upper(s) == [k \in 1..Len(s) |-> IF s[k] >= 97 /\ s[k] <= 122 THEN s[k] - 32 ELSE s[k]]

\* Python's str <= str: lexicographic by code point, a proper prefix is smaller
RECURSIVE StrLE(_, _)
StrLE(a, b) ==
    IF a = <<>> THEN TRUE
    ELSE IF b = <<>> THEN FALSE
    ELSE IF a[1] # b[1] THEN a[1] < b[1]
    ELSE StrLE(Tail(a), Tail(b))

\* str(n) for a natural number
RECURSIVE Decimal(_)
Decimal(n) == IF n < 10 THEN <<48 + n>> ELSE Decimal(n \div 10) \o <<48 + (n % 10)>>

\* ".".join(str(c) for c in v)
RECURSIVE Dotted(_)
Dotted(v) ==
    IF Len(v) = 0 THEN <<>>
    ELSE IF Len(v) = 1 THEN Decimal(v[1])
    ELSE Decimal(v[1]) \o <<46>> \o Dotted(Tail(v))

\* s.split()[0]: the text before the first blank
RECURSIVE FirstToken(_)
FirstToken(s) ==
    IF s = <<>> \/ s[1] = 32 THEN <<>> ELSE <<s[1]>> \o FirstToken(Tail(s))

\* ------------------------------------------------------------ environment
Titles == {"S1A", "S2A"}
Sizes == 1..MaxSize

\* os.path.join(directory_path, title + '.zip'), one download directory
Path(title) == <<".", title, ".zip">>
Paths == {Path(t) : t \in Titles}

\* A file: whether it exists, its length, and whose archive its bytes are a
\* prefix of (0: of no product's archive, i.e. corrupt).
NoFile == [exists |-> FALSE, size |-> 0, of |-> 0]
Files == {NoFile} \cup [exists : {TRUE}, size : Sizes, of : 0..MaxProducts]

\* hashlib.md5(...).hexdigest(): lower-case hex, injective on the modelled contents
hexdigest(file) == <<97 + file.of, 48 + file.size>>

\* pycurl.version of the installed library, e.g. "PycURL/7.43.0 libcurl/7.47.0 ..."
Versions == {<<7, 43, 0>>, <<7, 43, 0, 1>>, <<7, 9, 8>>}
pycurl_version_string(v) ==
    <<80, 121, 99, 85, 82, 76, 47>> \o Dotted(v) \o <<32, 108, 105, 98>>
\* the literal 'pycurl/7.43.0' of line 380
BrokenVersion == <<7, 43, 0>>
BrokenVersionLiteral == <<112, 121, 99, 117, 114, 108, 47>> \o Dotted(BrokenVersion)

VARIABLES
    last_query,         \* self.last_query: the query string of the last search
    content,            \* self.content: the stored search response
    products,           \* self.products: the feed entry get_products read last
    qry,                \* the arguments of the running or last query call, and
                        \*   how many search requests it has sent, the
                        \*   response it received and the fields of the
                        \*   SentinelAPIError it raised
    catalog,            \* the catalog's metadata: id -> [title, size]
    checksum_upper,     \* whether the catalog declares checksums in upper-case hex
    disk,               \* the download directory: path -> file
    pycurl_version,     \* version components of the installed pycurl
    pc,                 \* control point of the client
    caller,             \* who called download: "user" or "download_all"
    args,               \* [max_attempts, checksum, check_existing] of the running call
    loop,               \* download_all's locals: products, i, path, product_info,
                        \*   download_successful, remaining_attempts, result
    dl,                 \* download's locals: id, product_info, path
    exc,                \* the exception that left the running operation
    ret,                \* what download returned to the user
    hist                \* observations: attempts made for the current product,
                        \*   whether a signal was raised, and of the download call:
                        \*   the product info, the file found, what was removed,
                        \*   the length the transfer resumed from, what was raised,
                        \*   what the handler of line 360 caught at the last fetch

vars == <<last_query, content, products, qry, catalog, checksum_upper, disk,
          pycurl_version, pc, caller, args, loop, dl, exc, ret, hist>>
session == <<last_query, content>>
env == <<session, qry, catalog, checksum_upper, pycurl_version>>

\* Optional values: None is the empty sequence, a value v is <<v>>
None == <<>>
Some(v) == <<v>>

\* ------------------------------------------------------------ pure functions
\* mutant: the comparison without .lower()
md5_compare_case_sensitive(file, checksum) == hexdigest(file) = checksum

\* md5_compare(file_path, checksum): md5.hexdigest().lower() == checksum.lower()
md5_compare(file, checksum) == lower(hexdigest(file)) = lower(checksum)

\* The checksum the catalog declares for product id of length size
declared_md5(id, size, upper_case) ==
    LET digest == hexdigest([exists |-> TRUE, size |-> size, of |-> id])
    IN  IF upper_case THEN upper(digest) ELSE digest

\* HTTP responses: a status code and the shape of the body
\*   "product"  JSON product document {d: {Id, Name, ContentLength, ...}}
\*   "nokeys"   JSON without the expected keys
\*   "envelope" JSON error envelope {error: {code, message: {value}}}
\*   "html"     not JSON, text that does not start with '{'
\*   "brace"    not JSON, text that starts with '{'
StatusCodes == {200, 302, 500}
Bodies == {"product", "nokeys", "envelope", "html", "brace"}
Responses == [status_code : StatusCodes, body : Bodies]
IsJson(body) == body \in {"product", "nokeys", "envelope"}

\* response.raise_for_status(): HTTPError for a 4xx or 5xx status
raise_for_status(response) == response.status_code >= 400 /\ response.status_code < 600

\* where a KeyboardInterrupt / SystemExit / SystemError / MemoryError can be
\* raised inside _check_scihub_response's handler: nowhere ("no"), in the try
\* of lines 88-90 ("extract"), in the try of lines 93-97 ("strip")
Interruptions == {"no", "extract", "strip"}

\* _check_scihub_response(response), lines 80-104: whether SentinelAPIError
\* is raised and with which fields.  The bare excepts of lines 91 and 98 catch
\* whatever is raised in their try blocks.
check_scihub_response(response, interrupted) ==
    LET failed == raise_for_status(response) \/ ~IsJson(response.body)
        extracted == response.body = "envelope" /\ interrupted # "extract"
        stripped == ~extracted /\ response.body = "html" /\ interrupted # "strip"
        msg == IF extracted THEN "envelope_value"
               ELSE IF stripped THEN "html_text"
               ELSE "JSON decoding failed"
        code == IF extracted THEN Some("envelope_code") ELSE None
    IN  [raised |-> failed,
         http_status |-> response.status_code,
         code |-> code,
         msg |-> msg,
         response_body |-> response.body]

\* whether the interruption is one the handler can meet for this response:
\* line 89 runs when the check failed, line 97 when moreover the envelope
\* could not be read and the body does not start with '{'
can_interrupt(response, interrupted) ==
    \/ interrupted = "no"
    \/ /\ interrupted = "extract"
       /\ raise_for_status(response) \/ ~IsJson(response.body)
    \/ /\ interrupted = "strip"
       /\ raise_for_status(response) \/ ~IsJson(response.body)
       /\ response.body = "html"

\* get_products(): self.content.json()['feed']['entry'] as a list
get_products(c) ==
    IF c.kind \in {"nofeed", "error"} THEN <<>>
    ELSE IF c.kind = "dict" THEN <<c.entry[1]>>
    ELSE c.entry

\* ------------------------------------------------------------------- dates
\* date arguments: a datetime, a date, or a string; the calendar is the days
\* 1..MaxDay of January 2015 (and, for day 0, 31 December 2014); a datetime
\* is at 12h, a date formats as 00h
Days == 1..MaxDay
Hours == {12}
DateTimes == [type : {"datetime"}, day : Days, hour : Hours, text : {""}]
Dates == [type : {"date"}, day : Days, hour : {0}, text : {""}]

\* '%02d' % n
TwoDigits(n) == IF n < 10 THEN "0" \o ToString(n) ELSE ToString(n)

\* the string 'YYYYMMDD' of a day
yyyymmdd(day) == "201501" \o TwoDigits(day)
DateStrings == [type : {"str"}, day : {0}, hour : {0},
                text : {yyyymmdd(d) : d \in Days} \cup {"NOW"}]
DateArguments == DateTimes \cup Dates \cup DateStrings

\* d.strftime('%Y-%m-%dT%H:%M:%SZ')
strftime(day, hour) ==
    (IF day = 0 THEN "2014-12-31" ELSE "2015-01-" \o TwoDigits(day))
        \o "T" \o TwoDigits(hour) \o ":00:00Z"

\* datetime.strptime(text, '%Y%m%d'): the day, or None for ValueError
strptime(text) ==
    IF \E d \in Days : text = yyyymmdd(d)
    THEN Some(CHOOSE d \in Days : text = yyyymmdd(d))
    ELSE None

\* format_date(in_date), lines 58-69
format_date(in_date) ==
    IF in_date.type \in {"datetime", "date"}
    THEN strftime(in_date.day, in_date.hour)
    ELSE IF strptime(in_date.text) # None
         THEN strftime(strptime(in_date.text)[1], 0)
         ELSE in_date.text

\* end_date - timedelta(hours=24), line 170: defined for datetime and date
\* objects; a str operand raises TypeError
supports_timedelta(d) == d.type \in {"datetime", "date"}
minus_24_hours(d) == [d EXCEPT !.day = @ - 1]

\* ------------------------------------------------------------ format_query
\* keyword arguments: names and values, in the order the caller wrote them
KeywordNames == {"filename", "platformname", "producttype"}
KeywordValues == {"SLC", "S1A*"}
code_points(name) ==
    CASE name = "filename" -> <<102, 105, 108, 101, 110, 97, 109, 101>>
      [] name = "platformname" -> <<112, 108, 97, 116, 102, 111, 114, 109, 110, 97, 109, 101>>
      [] name = "producttype" -> <<112, 114, 111, 100, 117, 99, 116, 116, 121, 112, 101>>

\* keywords.keys(): insertion order
keys(keywords) == [k \in 1..Len(keywords) |-> keywords[k].key]
\* keywords[kw]
value_of(keywords, kw) ==
    keywords[CHOOSE k \in 1..Len(keywords) : keywords[k].key = kw].value
\* the dicts of up to MaxKeywords keyword arguments
KeywordDicts ==
    {kws \in UNION {[1..n -> [key : KeywordNames, value : KeywordValues]] : n \in 0..MaxKeywords} :
        \A i, j \in 1..Len(kws) : i # j => kws[i].key # kws[j].key}

\* sorted(names): by code point
RECURSIVE insert_sorted(_, _)
insert_sorted(name, sorted_names) ==
    IF sorted_names = <<>> THEN <<name>>
    ELSE IF StrLE(code_points(name), code_points(sorted_names[1]))
         THEN <<name>> \o sorted_names
         ELSE <<sorted_names[1]>> \o insert_sorted(name, Tail(sorted_names))
RECURSIVE sorted(_)
sorted(names) ==
    IF names = <<>> THEN <<>> ELSE insert_sorted(names[1], sorted(Tail(names)))

\* mutant: the filters are written in the order of keywords.keys()
unsorted(names) == names

\* the order in which line 188 visits the keys
filter_order(names) == sorted(names)

\* lines 187-189: filters += ' AND (%s:%s)' % (kw, keywords[kw])
RECURSIVE filters_of(_, _)
filters_of(names, keywords) ==
    IF names = <<>> THEN ""
    ELSE " AND (" \o names[1] \o ":" \o value_of(keywords, names[1]) \o ")"
           \o filters_of(Tail(names), keywords)

\* mutant: nothing is required of area and point
no_precondition(area, point) == TRUE

\* the condition of the assert statement, line 167
area_or_point_given(area, point) == area # None \/ point # None

\* format_query(area, point, initial_date, end_date, **keywords), lines
\* 163-192: what it raises and the query it returns
format_query(area, point, initial_date, end_date, keywords) ==
    LET asserted == area_or_point_given(area, point)
        initial == IF initial_date = None THEN minus_24_hours(end_date)
                   ELSE initial_date[1]
        acquisition_date == "(beginPosition:[" \o format_date(initial) \o " TO "
                               \o format_date(end_date) \o "])"
        query_area == IF area # None
                      THEN " AND (footprint:\"Intersects(POLYGON((" \o area[1] \o ")))\")"
                      ELSE ""
        query_point == IF point # None
                       THEN " AND (footprint:\"intersects(" \o point[1] \o ")\")"
                       ELSE ""
        filters == filters_of(filter_order(keys(keywords)), keywords)
    IN  IF ~asserted THEN [raised |-> "AssertionError", value |-> ""]
        ELSE IF initial_date = None /\ ~supports_timedelta(end_date)
        THEN [raised |-> "TypeError", value |-> ""]
        ELSE [raised |-> NoException,
              value |-> acquisition_date \o query_area \o query_point \o filters]

\* the version test of line 380
version_affected(v) ==
    StrLE(lower(FirstToken(pycurl_version_string(v))), BrokenVersionLiteral)

\* the installed versions for which the test of line 380 is true
affected_versions == {v \in Versions : version_affected(v)}

\* mutant: the KeyError of a response without 'feed' or 'entry' is not caught
get_products_raises_KeyError(c) ==
    IF c.kind = "None" THEN "AttributeError"
    ELSE IF c.kind \in {"html", "brace"} THEN SentinelAPIError
    ELSE IF c.kind \in {"nofeed", "error"} THEN SchemaError
    ELSE NoException

\* what get_products() raises: AttributeError when no response is stored
\* (self.content is None), SentinelAPIError when the stored body is not JSON
\* (lines 207-210); a missing 'feed' or 'entry' key is caught (line 204)
get_products_raises(c) ==
    IF c.kind = "None" THEN "AttributeError"
    ELSE IF c.kind \in {"html", "brace"} THEN SentinelAPIError
    ELSE NoException

\* the dict get_product_info builds (the fields download reads)
product_info_of(id, title, size, upper_case) ==
    [id |-> id, title |-> title, size |-> size,
     md5 |-> declared_md5(id, size, upper_case)]

\* -------------------------------------------------------------------- Init
\* A catalog of n products: id -> [title, size]
Catalogs(n) == [1..n -> [title : Titles, size : Sizes]]

\* Search responses the catalog gives for its products, in catalog order:
\* no feed entry, a single entry as an object (kind "dict": the object is
\* entry[1]), or a list of entries.  Before any search, self.content is None.
entry_of(cat, id) == [id |-> id, title |-> cat[id].title]
NoContent == [kind |-> "None", entry |-> <<>>, status_code |-> 0]
SearchResponses(cat) ==
    IF DOMAIN cat = {} THEN {[kind |-> "nofeed", entry |-> <<>>, status_code |-> 200]}
    ELSE {[kind |-> "list", entry |-> [k \in DOMAIN cat |-> entry_of(cat, k)],
           status_code |-> 200]}
         \cup (IF Cardinality(DOMAIN cat) = 1
               THEN {[kind |-> "dict", entry |-> <<entry_of(cat, 1)>>, status_code |-> 200]}
               ELSE {})

\* What the catalog can answer to a search request: the entries of the
\* products that match, in the order the catalog lists them (a single match
\* as an object or as a list of one), a JSON error envelope (kind "error"),
\* or a body that is not JSON: text that does not start with '{' (kind "html")
\* or text that does (kind "brace"); each with any of the status codes
Arrangements(cat) ==
    {e \in UNION {[1..n -> {entry_of(cat, id) : id \in DOMAIN cat}] : n \in 1..Cardinality(DOMAIN cat)} :
        \A i, j \in 1..Len(e) : i # j => e[i].id # e[j].id}
QueryResponses(cat) ==
    [kind : {"nofeed", "error", "html", "brace"}, entry : {<<>>}, status_code : StatusCodes]
    \cup [kind : {"list"}, entry : Arrangements(cat), status_code : StatusCodes]
    \cup [kind : {"dict"}, entry : {a \in Arrangements(cat) : Len(a) = 1},
          status_code : StatusCodes]

\* the stored response as _check_scihub_response sees it (line 153): its
\* status code and the shape of its body
response_of(c) ==
    [status_code |-> c.status_code,
     body |-> IF c.kind = "error" THEN "envelope"
              ELSE IF c.kind \in {"html", "brace"} THEN c.kind
              ELSE "nokeys"]

\* the query string of the search whose response the client has stored
AnyQuery == "*"

\* the arguments of a query call
Areas == {None, Some("0 0,0 1,1 1,0 0")}
Points == {None, Some("0.5, 0.5")}
QueryArguments ==
    [area : Areas, point : Points,
     initial_date : {None} \cup {Some(d) : d \in DateArguments},
     end_date : DateArguments, keywords : KeywordDicts]
RawQueries == {AnyQuery, "platformname:Sentinel-1"}

\* Download directories the client can find, at the paths of the catalog's
\* products: at most MaxInitFiles files; a file holds the first bytes of the
\* archive of a product of that title (no more than the archive has), or other
\* bytes.
PathsOf(cat) == {Path(cat[id].title) : id \in DOMAIN cat}
Directories(cat) ==
    {d \in [PathsOf(cat) -> Files] :
        /\ Cardinality({p \in PathsOf(cat) : d[p].exists}) <= MaxInitFiles
        /\ \A p \in PathsOf(cat) :
              d[p].of # 0 => /\ d[p].of \in DOMAIN cat
                             /\ Path(cat[d[p].of].title) = p
                             /\ d[p].size <= cat[d[p].of].size}

NoArgs == [max_attempts |-> 0, checksum |-> FALSE, check_existing |-> FALSE]
NoLoop == [products |-> <<>>, i |-> 0, path |-> None, product_info |-> None,
           download_successful |-> FALSE, remaining_attempts |-> 0, result |-> <<>>]
NoCall == [id |-> 0, product_info |-> None, path |-> None]
NoHist == [attempts |-> <<>>, signalled |-> FALSE, info |-> None, before |-> NoFile,
           removed |-> "none", resume_from |-> -1, raised |-> NoException,
           caught |-> NoException]

\* no query call was made
NoQuery == [area |-> None, point |-> None, initial_date |-> None, end_date |-> None,
            keywords |-> <<>>, raw |-> None, requests |-> 0, response |-> None,
            error |-> None]

\* the client's call stack after SentinelAPI.__init__ (lines 128-134)
Constructed ==
    /\ products = None
    /\ qry = NoQuery
    /\ pc = "idle"
    /\ caller = "none"
    /\ args = NoArgs
    /\ loop = NoLoop
    /\ dl = NoCall
    /\ exc = NoException
    /\ ret = None
    /\ hist = NoHist

\* A client that has stored the response of a search (query_raw, lines 151-153)
\* over a catalog of up to MaxProducts products
Init ==
    /\ \E n \in 0..MaxProducts : catalog \in Catalogs(n)
    /\ last_query = Some(AnyQuery)
    /\ content \in SearchResponses(catalog)
    /\ checksum_upper \in BOOLEAN
    /\ disk \in Directories(catalog)
    /\ pycurl_version \in Versions
    /\ Constructed

\* A client right after construction, and a catalog with one product
InitDownload ==
    /\ catalog \in Catalogs(1)
    /\ last_query = None
    /\ content = NoContent
    /\ checksum_upper \in BOOLEAN
    /\ disk \in Directories(catalog)
    /\ pycurl_version \in Versions
    /\ Constructed

\* --------------------------------------------------- leaving download(...)
\* mutant: download_successful is not set when download returns
Return_without_success_flag(path, info) ==
    /\ IF caller = "download_all"
       THEN /\ loop' = [loop EXCEPT !.path = path, !.product_info = Some(info),
                                    !.remaining_attempts = @ - 1]
            /\ pc' = "while"
            /\ ret' = ret
       ELSE /\ pc' = "returned"
            /\ ret' = Some(<<path, info>>)
            /\ loop' = loop
    /\ exc' = exc
    /\ dl' = NoCall
    /\ args' = args

\* download returns (path, product_info): to download_all (lines 429-431, 439)
\* or to the user
Return(path, info) ==
    /\ IF caller = "download_all"
       THEN /\ loop' = [loop EXCEPT !.path = path, !.product_info = Some(info),
                                    !.download_successful = TRUE,
                                    !.remaining_attempts = @ - 1]
            /\ pc' = "while"
            /\ ret' = ret
       ELSE /\ pc' = "returned"
            /\ ret' = Some(<<path, info>>)
            /\ loop' = loop
    /\ exc' = exc
    /\ dl' = NoCall
    /\ args' = args

\* mutant: only the checksum failure is handled, the bare except is missing
handled_only_checksum(e) == e = InvalidChecksumError

\* the except clauses of download_all, lines 432-439
handled_by_download_all(e) == e \notin FatalSignals

\* download raises e: download_all's handlers catch it, or it leaves the
\* running operation and the frames of the operation are gone
Raise(e) ==
    /\ IF caller = "download_all" /\ handled_by_download_all(e)
       THEN /\ loop' = [loop EXCEPT !.remaining_attempts = @ - 1]
            /\ pc' = "while"
            /\ exc' = exc
            /\ args' = args
       ELSE /\ pc' = "raised"
            /\ exc' = e
            /\ loop' = NoLoop
            /\ args' = IF caller = "download_all" THEN NoArgs ELSE args
    /\ ret' = ret
    /\ dl' = NoCall

\* What is observed of a download call when it ends with outcome
\* ("ok" / "fail") and exception e.  Inside download_all the call's own
\* observations end with the call; the attempts of the product are kept until
\* a signal ends download_all, and what the call raised until the next call
\* fetches.
Observed(h, outcome, e) ==
    IF caller = "download_all"
    THEN [NoHist EXCEPT !.attempts = IF e \in FatalSignals THEN <<>>
                                     ELSE Append(h.attempts, outcome),
                        !.signalled = h.signalled \/ e \in FatalSignals,
                        !.raised = IF e \in FatalSignals THEN NoException ELSE e]
    ELSE [h EXCEPT !.raised = e, !.signalled = @ \/ e \in FatalSignals]

\* ----------------------------------------------------------------- actions
\* download_all(directory_path, max_attempts, checksum, check_existing):
\* lines 419-421; get_products may raise (line 420)
download_all_call ==
    /\ pc = "idle"
    /\ \E max_attempts \in 1..MaxAttempts, checksum \in BOOLEAN, check_existing \in BOOLEAN :
          args' = [max_attempts |-> max_attempts, checksum |-> checksum,
                   check_existing |-> check_existing]
    /\ caller' = "download_all"
    /\ IF get_products_raises(content) # NoException
       THEN /\ pc' = "raised"
            /\ exc' = get_products_raises(content)
            /\ UNCHANGED <<loop, products>>
       ELSE /\ loop' = [NoLoop EXCEPT !.products = get_products(content), !.i = 1]
            /\ products' = IF content.kind \in {"nofeed", "error"} THEN products
                           ELSE Some(content.entry)
            /\ pc' = "for"
            /\ exc' = exc
    /\ UNCHANGED <<env, disk, dl, ret, hist>>

\* for i, product in enumerate(products): lines 422-426, and return result (442)
for_next ==
    /\ pc = "for"
    /\ IF loop.i <= Len(loop.products)
       THEN /\ loop' = [loop EXCEPT !.path = Path(loop.products[loop.i].title),
                                    !.product_info = None,
                                    !.download_successful = FALSE,
                                    !.remaining_attempts = args.max_attempts]
            /\ hist' = [NoHist EXCEPT !.signalled = hist.signalled]
            /\ pc' = "while"
       ELSE /\ pc' = "returned"
            /\ UNCHANGED <<loop, hist>>
    /\ UNCHANGED <<env, products, disk, caller, args, dl, exc, ret>>

\* while not download_successful and remaining_attempts > 0: lines 427-429,
\* and result[path] = product_info (440-441)
while_head ==
    /\ pc = "while"
    /\ IF ~loop.download_successful /\ loop.remaining_attempts > 0
       THEN /\ dl' = [NoCall EXCEPT !.id = loop.products[loop.i].id]
            /\ hist' = [NoHist EXCEPT !.attempts = hist.attempts,
                                      !.signalled = hist.signalled,
                                      !.raised = hist.raised]
            /\ pc' = "fetch"
            /\ loop' = loop
       ELSE /\ loop' = [loop EXCEPT
                 !.result = [p \in DOMAIN loop.result \cup {loop.path} |->
                                IF p = loop.path THEN loop.product_info
                                ELSE loop.result[p]],
                 !.i = @ + 1]
            /\ pc' = "for"
            /\ UNCHANGED <<dl, hist>>
    /\ UNCHANGED <<env, products, disk, caller, args, exc, ret>>

\* the user calls download(id, directory_path, checksum, check_existing): line 356
download_call ==
    /\ pc = "idle"
    /\ \E id \in DOMAIN catalog, checksum \in BOOLEAN, check_existing \in BOOLEAN :
          /\ args' = [NoArgs EXCEPT !.checksum = checksum, !.check_existing = check_existing]
          /\ dl' = [NoCall EXCEPT !.id = id]
    /\ caller' = "user"
    /\ pc' = "fetch"
    /\ UNCHANGED <<env, products, disk, loop, exc, ret, hist>>

\* mutant: the handler of line 360 also catches the transport's exceptions
caught_with_transport_errors(e) == e \in {SentinelAPIError, TransportError}

\* mutant: the handler of line 360 also catches a missing key
caught_with_schema_errors(e) == e \in {SentinelAPIError, SchemaError}

\* except SentinelAPIError, line 360
caught_by_download(e) == e = SentinelAPIError

\* get_product_info(id) raised e inside the try of lines 358-362: the handler
\* catches it and download will sleep, or it leaves download.  swallowed: a
\* signal was caught inside _check_scihub_response on the way.
fetch_raised(e, swallowed) ==
    IF caught_by_download(e)
    THEN /\ pc' = "sleep"
         /\ hist' = [hist EXCEPT !.caught = e, !.signalled = @ \/ swallowed,
                                 !.raised = NoException]
         /\ UNCHANGED <<loop, dl, exc, ret, args>>
    ELSE /\ Raise(e)
         /\ hist' = Observed([hist EXCEPT !.caught = NoException,
                                           !.raised = NoException], "fail", e)

\* product_info = self.get_product_info(id) inside the loop of lines 357-362:
\* the request fails, or a response arrives and is checked and parsed
\* (lines 288-316); SentinelAPIError is caught by line 360.
get_product_info ==
    /\ pc = "fetch"
    /\ \/ fetch_raised(TransportError, FALSE)
       \/ \E response \in Responses, interrupted \in Interruptions :
            LET chk == check_scihub_response(response, interrupted) IN
            /\ can_interrupt(response, interrupted)
            /\ IF chk.raised
               THEN fetch_raised(SentinelAPIError, interrupted # "no")
               ELSE IF response.body # "product"
               THEN fetch_raised(SchemaError, FALSE)
               ELSE /\ dl' = [dl EXCEPT !.product_info =
                                 Some(product_info_of(dl.id, catalog[dl.id].title,
                                                      catalog[dl.id].size, checksum_upper))]
                    /\ hist' = [hist EXCEPT !.caught = NoException,
                                            !.raised = NoException]
                    /\ pc' = "check"
                    /\ UNCHANGED <<loop, exc, ret, args>>
    /\ UNCHANGED <<env, products, disk, caller>>

\* sleep(60), line 362, then the loop of line 357 fetches again
sleep ==
    /\ pc = "sleep"
    /\ pc' = "fetch"
    /\ UNCHANGED <<env, products, disk, caller, args, loop, dl, exc, ret, hist>>

\* mutant: the checksum of an existing file is always verified
already_downloaded_always_verified(file, info, check_existing) ==
    /\ file.exists /\ file.size = info.size
    /\ md5_compare(file, info.md5)

\* line 371-372: the file at path counts as already downloaded
already_downloaded(file, info, check_existing) ==
    /\ file.exists /\ file.size = info.size
    /\ (~check_existing \/ md5_compare(file, info.md5))

\* mutant: the corrupt file is not removed before the transfer
after_existing_check_keeps(file, info, check_existing) == file

\* lines 371-377: a file of the expected size that is not accepted is removed
after_existing_check(file, info, check_existing) ==
    IF file.exists /\ file.size = info.size /\ ~already_downloaded(file, info, check_existing)
    THEN NoFile ELSE file

\* mutant: the workaround removes the large file whatever the version is
after_workaround_every_version(file, version) ==
    IF file.exists /\ file.size >= TwoGiB THEN NoFile ELSE file

\* lines 379-383: the workaround for PycURL's bug when continuing > 2 GB files
after_workaround(file, version) ==
    IF file.exists /\ file.size >= TwoGiB /\ version \in affected_versions
    THEN NoFile ELSE file

\* lines 364-383 of download: the path, the existing file, the workaround
check_existing_file ==
    /\ pc = "check"
    /\ LET info == dl.product_info[1]
           path == Path(info.title)
           file == disk[path]
           kept == after_existing_check(file, info, args.check_existing)
           left == after_workaround(kept, pycurl_version)
       IN  IF already_downloaded(file, info, args.check_existing)
           THEN /\ Return(path, info)
                /\ hist' = Observed([hist EXCEPT !.info = Some(info), !.before = file],
                                     "ok", NoException)
                /\ disk' = disk
           ELSE /\ disk' = [disk EXCEPT ![path] = left]
                /\ dl' = [dl EXCEPT !.path = path]
                /\ hist' = [hist EXCEPT !.info = Some(info), !.before = file,
                                        !.removed = IF kept # file THEN "corrupt"
                                                    ELSE IF left # kept THEN "workaround"
                                                    ELSE "none"]
                /\ pc' = "transfer"
                /\ UNCHANGED <<loop, exc, ret, args>>
    /\ UNCHANGED <<env, products, caller>>

\* What homura.download leaves at path when it has fetched up to length n,
\* appending to the file it found (line 370: it continues an incomplete file).
transferred(file, info, n, corrupted) ==
    LET cur == IF file.exists THEN file.size ELSE 0
        intact == ~file.exists \/ file.of = info.id
    IN  IF n <= cur THEN file
        ELSE [exists |-> TRUE, size |-> n,
              of |-> IF intact /\ ~corrupted THEN info.id ELSE 0]

\* homura.download(product_info['url'], path=path, ...), line 385: it
\* completes, or fails or is interrupted after some bytes
transfer ==
    /\ pc = "transfer"
    /\ LET info == dl.product_info[1]
           file == disk[dl.path]
           cur == IF file.exists THEN file.size ELSE 0
       IN  \/ \E corrupted \in BOOLEAN :
                /\ disk' = [disk EXCEPT ![dl.path] = transferred(file, info, info.size, corrupted)]
                /\ hist' = [hist EXCEPT !.resume_from = cur]
                /\ pc' = "verify"
                /\ UNCHANGED <<loop, dl, exc, ret, args>>
           \/ \E n \in 0..(info.size - 1), e \in {TransportError} \cup FatalSignals :
                /\ disk' = [disk EXCEPT ![dl.path] = transferred(file, info, n, FALSE)]
                /\ Raise(e)
                /\ hist' = Observed([hist EXCEPT !.resume_from = cur], "fail", e)
    /\ UNCHANGED <<env, products, caller>>

\* lines 387-391: the integrity check after the transfer, and the return
verify_checksum ==
    /\ pc = "verify"
    /\ LET info == dl.product_info[1]
       IN  IF args.checksum /\ ~md5_compare(disk[dl.path], info.md5)
           THEN /\ Raise(InvalidChecksumError)
                /\ hist' = Observed(hist, "fail", InvalidChecksumError)
           ELSE /\ Return(dl.path, info)
                /\ hist' = Observed(hist, "ok", NoException)
    /\ UNCHANGED <<env, products, disk, caller>>

\* KeyboardInterrupt, SystemExit, SystemError or MemoryError raised at a
\* control point: no handler of download catches it, download_all re-raises it
\* (lines 432-433)
signal ==
    /\ pc \in {"for", "while", "fetch", "sleep", "check", "verify"}
    /\ \E s \in FatalSignals :
          /\ Raise(s)
          /\ hist' = Observed(hist, "fail", s)
    /\ UNCHANGED <<env, products, disk, caller>>

\* query_raw(query), lines 151-153, for the call observed as q: the request
\* fails in transport, or the response is stored and checked
query_raw_body(query, q) ==
    /\ last_query' = Some(query)
    /\ \/ /\ content' = content
          /\ qry' = [q EXCEPT !.requests = @ + 1]
          /\ pc' = "raised"
          /\ exc' = TransportError
       \/ \E response \in QueryResponses(catalog) :
            /\ content' = response
            /\ LET chk == check_scihub_response(response_of(response), "no") IN
               IF chk.raised
               THEN /\ pc' = "raised" /\ exc' = SentinelAPIError
                    /\ qry' = [q EXCEPT !.requests = @ + 1, !.response = Some(response),
                                        !.error = Some(chk)]
               ELSE /\ pc' = "returned" /\ exc' = exc
                    /\ qry' = [q EXCEPT !.requests = @ + 1, !.response = Some(response)]

\* the user calls query(area, point, initial_date, end_date, **keywords),
\* lines 144-145, with arguments from Arguments
query(Arguments) ==
    /\ pc = "idle"
    /\ caller' = "query"
    /\ \E a \in Arguments :
          LET q == [area |-> a.area, point |-> a.point, initial_date |-> a.initial_date,
                    end_date |-> Some(a.end_date), keywords |-> a.keywords,
                    raw |-> None, requests |-> 0, response |-> None, error |-> None]
              formatted == format_query(a.area, a.point, a.initial_date, a.end_date,
                                        a.keywords)
          IN  IF formatted.raised # NoException
              THEN /\ pc' = "raised"
                   /\ exc' = formatted.raised
                   /\ qry' = q
                   /\ UNCHANGED session
              ELSE query_raw_body(formatted.value, q)
    /\ UNCHANGED <<products, catalog, checksum_upper, pycurl_version, disk, args, loop,
                   dl, ret, hist>>

\* the user calls query_raw(query)
query_raw ==
    /\ pc = "idle"
    /\ caller' = "query_raw"
    /\ \E raw \in RawQueries : query_raw_body(raw, [NoQuery EXCEPT !.raw = Some(raw)])
    /\ UNCHANGED <<products, catalog, checksum_upper, pycurl_version, disk, args, loop,
                   dl, ret, hist>>

\* the user calls get_products(), lines 194-210
get_products_call ==
    /\ pc = "idle"
    /\ caller' = "get_products"
    /\ IF get_products_raises(content) # NoException
       THEN /\ pc' = "raised"
            /\ exc' = get_products_raises(content)
            /\ UNCHANGED <<products, ret>>
       ELSE /\ pc' = "returned"
            /\ ret' = Some(get_products(content))
            /\ products' = IF content.kind \in {"nofeed", "error"} THEN products
                           ELSE Some(content.entry)
            /\ exc' = exc
    /\ UNCHANGED <<env, disk, args, loop, dl, hist>>

\* the operation has returned or raised, and the client is used again
again ==
    /\ pc \in {"returned", "raised"}
    /\ pc' = "idle"
    /\ caller' = "none"
    /\ qry' = NoQuery
    /\ args' = NoArgs /\ loop' = NoLoop /\ dl' = NoCall
    /\ exc' = NoException /\ ret' = None /\ hist' = NoHist
    /\ UNCHANGED <<session, products, catalog, checksum_upper, pycurl_version, disk>>

\* download_all over the stored search response
Next ==
    \/ download_all_call
    \/ for_next
    \/ while_head
    \/ get_product_info
    \/ sleep
    \/ check_existing_file
    \/ transfer
    \/ verify_checksum
    \/ signal

Spec == Init /\ [][Next]_vars

\* one download call by the user
NextDownload ==
    \/ download_call
    \/ get_product_info
    \/ sleep
    \/ check_existing_file
    \/ transfer
    \/ verify_checksum
    \/ signal

SpecDownload == InitDownload /\ [][NextDownload]_vars

\* download and download_all, each called once, by a client that has stored
\* the response of a search over a catalog with one product
InitClient ==
    /\ catalog \in Catalogs(1)
    /\ last_query = Some(AnyQuery)
    /\ content \in SearchResponses(catalog)
    /\ checksum_upper \in BOOLEAN
    /\ disk \in Directories(catalog)
    /\ pycurl_version \in Versions
    /\ Constructed

NextClient ==
    \/ download_call
    \/ download_all_call
    \/ for_next
    \/ while_head
    \/ get_product_info
    \/ sleep
    \/ check_existing_file
    \/ transfer
    \/ verify_checksum
    \/ signal

SpecClient == InitClient /\ [][NextClient]_vars

\* A client right after construction, or one that has stored the response
\* listing the catalog's products, and one call of query or query_raw
InitQuery ==
    /\ catalog = [id \in 1..MaxProducts |->
                     [title |-> IF id % 2 = 1 THEN "S1A" ELSE "S2A", size |-> 1]]
    /\ \/ last_query = None /\ content = NoContent
       \/ last_query = Some(AnyQuery) /\ content \in SearchResponses(catalog)
    /\ checksum_upper = FALSE
    /\ disk = [p \in PathsOf(catalog) |-> NoFile]
    /\ pycurl_version = BrokenVersion
    /\ Constructed

NextQuery ==
    \/ query(QueryArguments)
    \/ query_raw

SpecQuery == InitQuery /\ [][NextQuery]_vars

\* A client with any stored response, or none, and one call of get_products
InitProducts ==
    /\ catalog \in Catalogs(MaxProducts)
    /\ \/ last_query = None /\ content = NoContent
       \/ last_query = Some(AnyQuery) /\ content \in QueryResponses(catalog)
    /\ checksum_upper = FALSE
    /\ disk = [p \in PathsOf(catalog) |-> NoFile]
    /\ pycurl_version = BrokenVersion
    /\ Constructed

NextProducts == get_products_call

SpecProducts == InitProducts /\ [][NextProducts]_vars

\* A client over a catalog with one product, used for one operation after
\* the other: searches (with an area, a point, both or neither), get_products,
\* download and download_all
SessionArguments ==
    {a \in QueryArguments :
        /\ a.initial_date = None /\ a.keywords = <<>>
        /\ a.end_date = [type |-> "datetime", day |-> 1, hour |-> 12, text |-> ""]}

InitSession ==
    /\ catalog = <<[title |-> "S1A", size |-> 1]>>
    /\ last_query = None
    /\ content = NoContent
    /\ checksum_upper = FALSE
    /\ disk = [p \in PathsOf(catalog) |-> NoFile]
    /\ pycurl_version = BrokenVersion
    /\ Constructed

NextSession ==
    \/ query(SessionArguments)
    \/ query_raw
    \/ get_products_call
    \/ download_call
    \/ download_all_call
    \/ for_next
    \/ while_head
    \/ get_product_info
    \/ sleep
    \/ check_existing_file
    \/ transfer
    \/ verify_checksum
    \/ signal
    \/ again

SpecSession == InitSession /\ [][NextSession]_vars

\* program steps are taken as long as one is possible; signals and calls are
\* the environment's.  download_all runs on a catalog of one product.
SpecLive ==
    /\ InitClient /\ [][Next]_vars
    /\ WF_vars(for_next) /\ WF_vars(while_head) /\ WF_vars(get_product_info)
    /\ WF_vars(sleep) /\ WF_vars(check_existing_file) /\ WF_vars(transfer)
    /\ WF_vars(verify_checksum)

\* ------------------------------------------------------------------ claims
InDownload == pc \in {"fetch", "sleep", "check", "transfer", "verify"}

\* C1: download_all calls download for a product until its first success or
\* until max_attempts calls were made: no call follows a success, the calls
\* never exceed max_attempts, a product all of whose calls failed got exactly
\* max_attempts calls and is recorded as None, a product whose last call
\* succeeded is recorded with the product info of that call, and download_all
\* returns only after every product was processed.
C1_AttemptsUntilSuccessOrBudget ==
    (caller = "download_all" /\ pc # "raised") =>
        LET a == hist.attempts
            N == args.max_attempts
        IN  /\ Len(a) <= N
            /\ \A j \in 1..(Len(a) - 1) : a[j] = "fail"
            /\ InDownload => (Len(a) < N /\ \A j \in 1..Len(a) : a[j] = "fail")
            /\ (pc \in {"for", "returned"} /\ loop.i > 1) =>
                  LET product == loop.products[loop.i - 1]
                  IN  IF a # <<>> /\ a[Len(a)] = "ok"
                      THEN /\ loop.path = Path(product.title)
                           /\ loop.result[loop.path] # None
                           /\ loop.result[loop.path][1].id = product.id
                      ELSE /\ Len(a) = N
                           /\ loop.result[Path(product.title)] = None
            /\ pc = "returned" => loop.i = Len(loop.products) + 1

\* C1 witness: two products, the first failed max_attempts = 2 times and is
\* recorded as None, the second succeeded at its second call
C1_Witness ==
    /\ caller = "download_all" /\ pc = "returned"
    /\ Len(loop.products) = 2 /\ args.max_attempts = 2
    /\ hist.attempts = <<"fail", "ok">>
    /\ \E p \in DOMAIN loop.result : loop.result[p] = None

\* C2: a fatal signal raised during an attempt leaves download_all at once:
\* once one was raised, the client is in no other state than "raised" with
\* that signal
C2_FatalSignalPropagates ==
    hist.signalled => (pc = "raised" /\ exc \in FatalSignals)

C4_EntryForEachProduct ==
    (caller = "download_all" /\ pc = "returned") =>
        /\ \A k \in 1..Len(loop.products) :
              Path(loop.products[k].title) \in DOMAIN loop.result
        /\ Cardinality(DOMAIN loop.result) = Len(loop.products)

\* C5: once download_all is running it eventually returns or propagates a
\* fatal signal
C5_DownloadAllTerminates ==
    (caller = "download_all" /\ pc = "for") ~> (pc \in {"returned", "raised"})

\* the download call's product info and the file now at its path
CallInfo == hist.info[1]
CallFile == disk[Path(CallInfo.title)]
\* the file found is the complete archive of the product
FoundExpectedSize == hist.before.exists /\ hist.before.size = CallInfo.size

\* C6: a file of exactly the expected size and check_existing false: download
\* returns (path, product_info), no transfer was started, nothing was removed
\* and the file is as it was found
C6_CompleteFileSkipsTransfer ==
    (caller = "user" /\ hist.info # None /\ FoundExpectedSize /\ ~args.check_existing) =>
        /\ pc = "returned"
        /\ ret = Some(<<Path(CallInfo.title), CallInfo>>)
        /\ hist.resume_from = -1
        /\ hist.removed = "none"
        /\ CallFile = hist.before

\* C6 witness: a file of the expected size with other bytes was accepted
C6_Witness ==
    /\ caller = "user" /\ pc = "returned" /\ hist.info # None
    /\ FoundExpectedSize /\ ~args.check_existing
    /\ hist.before.of = 0

\* C7: a file of exactly the expected size and check_existing true: if it is
\* the product's archive (its checksum is the declared one) download returns
\* without transfer and leaves it; otherwise it is removed, no file is there
\* when the transfer starts and the transfer starts from length 0
C7_VerifyExisting ==
    (caller = "user" /\ hist.info # None /\ FoundExpectedSize /\ args.check_existing) =>
        IF hist.before.of = CallInfo.id
        THEN /\ pc = "returned"
             /\ hist.resume_from = -1
             /\ hist.removed = "none"
             /\ CallFile = hist.before
        ELSE /\ hist.removed = "corrupt"
             /\ pc = "transfer" => ~CallFile.exists
             /\ hist.resume_from \in {-1, 0}

\* C7 witness: the corrupt file was removed and the transfer started from 0
C7_Witness ==
    /\ caller = "user" /\ pc = "verify" /\ hist.info # None
    /\ FoundExpectedSize /\ args.check_existing
    /\ hist.removed = "corrupt" /\ hist.resume_from = 0

\* version v is at or below version w, component by component as numbers
RECURSIVE VersionLE(_, _)
VersionLE(v, w) ==
    IF v = <<>> THEN TRUE
    ELSE IF w = <<>> THEN FALSE
    ELSE IF v[1] # w[1] THEN v[1] < w[1]
    ELSE VersionLE(Tail(v), Tail(w))

\* C8: when the transfer starts after a partial file of 2 GiB or more was
\* found: with pycurl at or below 7.43.0 no file is there, with a later pycurl
\* the file is there as found
C8_WorkaroundByVersion ==
    (pc = "transfer" /\ hist.before.exists /\ hist.before.size >= TwoGiB
        /\ hist.before.size < CallInfo.size) =>
        IF VersionLE(pycurl_version, BrokenVersion)
        THEN ~CallFile.exists
        ELSE CallFile = hist.before

\* C9: when download returns, the file at the returned path has the expected
\* size
C9_ReturnedFileHasExpectedSize ==
    (caller = "user" /\ pc = "returned") =>
        /\ disk[ret[1][1]].exists
        /\ disk[ret[1][1]].size = ret[1][2].size

\* C10: with checksum requested and the transfer completed, download raises
\* InvalidChecksumError exactly when the file is not the product's archive
\* whatever the letter case of the declared checksum, and the file is still
\* there
C10_ChecksumMismatchRaises ==
    (caller = "user" /\ hist.info # None) =>
        /\ (pc = "raised" /\ exc = InvalidChecksumError) =>
              /\ args.checksum /\ hist.resume_from # -1
              /\ CallFile.exists
              /\ ~(CallFile.of = CallInfo.id /\ CallFile.size = CallInfo.size)
        /\ (pc = "returned" /\ args.checksum /\ hist.resume_from # -1) =>
              (CallFile.of = CallInfo.id /\ CallFile.size = CallInfo.size)

\* C10 witness: a transfer completed with corrupt bytes, the declared checksum
\* is in upper case, InvalidChecksumError was raised and the file is there
C10_Witness ==
    /\ caller = "user" /\ pc = "raised" /\ exc = InvalidChecksumError
    /\ hist.info # None /\ checksum_upper
    /\ CallFile.exists /\ CallFile.size = CallInfo.size

\* C11: in a download call by the user a SentinelAPIError of the metadata
\* fetch never reaches the caller: it is the only exception the handler
\* catches, download then waits and fetches again, however often that
\* happened before; until a fetch succeeded no file is changed, nothing is
\* removed and no transfer is started.  A transport error of the fetch is not
\* caught: it is raised to the caller by the fetch in which it occurs.
C11_CatalogErrorRetriedTransportErrorRaised ==
    /\ [](caller = "user" =>
            /\ exc # SentinelAPIError
            /\ hist.caught \in {NoException, SentinelAPIError}
            /\ pc = "sleep" => hist.caught = SentinelAPIError
            /\ pc \in {"fetch", "sleep"} =>
                  /\ hist.info = None /\ hist.removed = "none"
                  /\ hist.resume_from = -1)
    /\ [][caller = "user" =>
            /\ pc \in {"fetch", "sleep"} => disk' = disk
            /\ pc = "sleep" => (pc' = "fetch" \/ (pc' = "raised" /\ exc' \in FatalSignals))
            /\ (pc = "fetch" /\ pc' = "raised") =>
                  exc' \in {TransportError, SchemaError} \cup FatalSignals]_vars

\* C11 witness: after a catalog error was caught, download fetches again
C11_Witness ==
    /\ caller = "user" /\ pc = "fetch" /\ hist.caught = SentinelAPIError
    /\ hist.info = None

\* C12 as claimed: once a metadata fetch for a product ended in a schema
\* error, no further fetch or download attempt is made for that product
C12_SchemaErrorNeverRetried ==
    hist.raised = SchemaError => ~InDownload

\* C12: a schema error of the metadata fetch is never caught by download: a
\* download call by the user ends with it, raised to the caller.  Inside
\* download_all it ends the attempt like any non-fatal error: it does not
\* leave download_all, the attempt is counted, and download is called again
\* for the product while attempts remain; after the last one the product is
\* recorded as None.
C12_SchemaErrorEndsTheCall ==
    /\ hist.caught # SchemaError
    /\ (caller = "user" /\ hist.raised = SchemaError) =>
          (pc = "raised" /\ exc = SchemaError /\ hist.info = None)
    /\ (caller = "download_all" /\ hist.raised = SchemaError) =>
          /\ pc \in {"while", "fetch", "for", "returned"}
          /\ exc = NoException
          /\ pc \in {"for", "returned"} =>
                (loop.remaining_attempts = 0 /\ loop.result[loop.path] = None)
          /\ hist.attempts # <<>> /\ hist.attempts[Len(hist.attempts)] = "fail"
          /\ loop.remaining_attempts = args.max_attempts - Len(hist.attempts)
          /\ pc = "fetch" => loop.remaining_attempts > 0

\* C12 witness: download_all calls download again after a schema error
C12_Witness ==
    /\ caller = "download_all" /\ pc = "fetch" /\ hist.raised = SchemaError

\* the keyword names in ascending order, and the clause of a name in a dict
AscendingNames == <<"filename", "platformname", "producttype">>
ClauseOf(name, keywords) ==
    IF \E k \in 1..Len(keywords) : keywords[k].key = name
    THEN " AND (" \o name \o ":"
           \o (CHOOSE v \in KeywordValues : \E k \in 1..Len(keywords) :
                                               keywords[k] = [key |-> name, value |-> v])
           \o ")"
    ELSE ""
\* the same key/value pairs, whatever the insertion order
SamePairs(k1, k2) == {k1[i] : i \in 1..Len(k1)} = {k2[i] : i \in 1..Len(k2)}
\* the query call got as far as sending its search request
QuerySent == caller = "query" /\ qry.requests > 0
QueryInitial == IF qry.initial_date = None THEN minus_24_hours(qry.end_date[1])
                ELSE qry.initial_date[1]

\* C13: the query string a query call sends is the date-range clause, then
\* the area clause if an area was given, then the point clause if a point was
\* given, then one clause per keyword in ascending order of the names; and
\* format_query returns that same string for every insertion order of the
\* same key/value pairs.
C13_ClausesInFixedOrder ==
    QuerySent =>
        /\ last_query =
              Some("(beginPosition:[" \o format_date(QueryInitial) \o " TO "
                      \o format_date(qry.end_date[1]) \o "])"
                   \o (IF qry.area = None THEN ""
                       ELSE " AND (footprint:\"Intersects(POLYGON((" \o qry.area[1] \o ")))\")")
                   \o (IF qry.point = None THEN ""
                       ELSE " AND (footprint:\"intersects(" \o qry.point[1] \o ")\")")
                   \o ClauseOf(AscendingNames[1], qry.keywords)
                   \o ClauseOf(AscendingNames[2], qry.keywords)
                   \o ClauseOf(AscendingNames[3], qry.keywords))
        /\ \A other \in KeywordDicts :
              SamePairs(other, qry.keywords) =>
                 format_query(qry.area, qry.point, qry.initial_date, qry.end_date[1],
                              other).value = last_query[1]

\* C13 witness: a query with area, point and two keywords given in
\* descending order of their names
C13_Witness ==
    /\ QuerySent /\ qry.area # None /\ qry.point # None
    /\ Len(qry.keywords) = 2
    /\ qry.keywords[1].key = "producttype" /\ qry.keywords[2].key = "filename"

\* the forms of a date value: a datetime, a date, or a 'YYYYMMDD' string
IsDateValue(d) == d.type \in {"datetime", "date"} \/ strptime(d.text) # None
\* the instant 24 hours before the instant a date value names
Minus24Hours(d) ==
    strftime((IF d.type = "str" THEN strptime(d.text)[1] ELSE d.day) - 1,
             IF d.type = "datetime" THEN d.hour ELSE 0)

\* C14: a query call without initial_date, with an area or a point, and with
\* an end_date that is a datetime, a date or a 'YYYYMMDD' string sends a query
\* whose date range starts exactly 24 hours before end_date
C14_DefaultInitialDate ==
    (caller = "query" /\ qry.initial_date = None
        /\ (qry.area # None \/ qry.point # None)
        /\ IsDateValue(qry.end_date[1])) =>
        /\ qry.requests > 0
        /\ SubSeq(last_query[1], 17, 36) = Minus24Hours(qry.end_date[1])

\* C15: a query call with neither area nor point raises AssertionError, sends
\* no search request and leaves last_query and the stored response as they
\* were; a query call with an area or a point does not raise AssertionError
C15_AreaOrPointRequired ==
    [][(pc = "idle" /\ caller' = "query") =>
          IF qry'.area = None /\ qry'.point = None
          THEN /\ pc' = "raised" /\ exc' = "AssertionError"
               /\ qry'.requests = 0
               /\ last_query' = last_query /\ content' = content
          ELSE exc' # "AssertionError"]_vars

\* C15 witness: a client with a stored response has refused a query without
\* area and point
C15_Witness ==
    /\ caller = "query" /\ pc = "raised" /\ exc = "AssertionError"
    /\ qry.area = None /\ qry.point = None
    /\ last_query = Some(AnyQuery) /\ content.kind = "list"

\* C16: get_products on a stored search response returns a sequence and does
\* not raise: for a feed entry that is a single object, the sequence of that
\* one object, which is what it returns for a list response with that one
\* object; for a response without feed or entry, the empty sequence; for a
\* list response, the list in its order.
C16_GetProductsReturnsSequence ==
    (caller = "get_products" /\ content.kind \in {"dict", "list", "nofeed"}) =>
        /\ pc = "returned" /\ exc = NoException
        /\ content.kind = "dict" =>
              /\ ret = Some(<<content.entry[1]>>)
              /\ ret = Some(get_products([kind |-> "list", entry |-> <<content.entry[1]>>,
                                            status_code |-> content.status_code]))
        /\ content.kind = "nofeed" => ret = Some(<<>>)
        /\ content.kind = "list" =>
              /\ Len(ret[1]) = Len(content.entry)
              /\ \A k \in 1..Len(content.entry) : ret[1][k] = content.entry[k]

\* C16 witness: get_products returned the single object of a response as a
\* sequence of one
C16_Witness ==
    /\ caller = "get_products" /\ pc = "returned"
    /\ content.kind = "dict" /\ Len(ret[1]) = 1

\* the query string a search call issues
IssuedQuery(q) ==
    IF q.raw # None THEN q.raw[1]
    ELSE format_query(q.area, q.point, q.initial_date, q.end_date[1], q.keywords).value

\* C17: last_query and the stored response change only in a query or
\* query_raw call; a call that sends its search request leaves the client with
\* the query it issued and with the response to that request in place of the
\* former one; get_products and download_all then work on the entries of that
\* stored response.
C17_SessionReplacedBySearchOnly ==
    [][/\ (last_query' # last_query \/ content' # content) =>
             (pc = "idle" /\ caller' \in {"query", "query_raw"})
       /\ (pc = "idle" /\ caller' \in {"query", "query_raw"} /\ qry'.requests > 0) =>
             /\ last_query' = Some(IssuedQuery(qry'))
             /\ qry'.response # None
             /\ content' = qry'.response[1]
       /\ (pc = "idle" /\ caller' = "get_products" /\ pc' = "returned") =>
             ret' = Some(get_products(content))
       /\ (pc = "idle" /\ caller' = "download_all" /\ pc' = "for") =>
             loop'.products = get_products(content)]_vars

\* C18: the check of a response raises SentinelAPIError exactly when the
\* status is not 2xx or the body is not JSON; the error carries the status and
\* the body of the response, and the code and message of the error envelope
\* when the body is one; otherwise no code and, for a body that does not start
\* with '{', the text of the body without markup; otherwise no code and the
\* message that JSON decoding failed.
C18_CatalogErrorClassified ==
    (caller \in {"query", "query_raw"} /\ qry.response # None) =>
        LET response == qry.response[1]
            invalid == \/ response.status_code < 200 \/ response.status_code > 299
                       \/ response.kind \in {"html", "brace"}
        IN  /\ (pc = "raised" /\ exc = SentinelAPIError) <=> invalid
            /\ invalid =>
                  /\ qry.error # None
                  /\ qry.error[1].http_status = response.status_code
                  /\ qry.error[1].response_body = response_of(response).body
                  /\ IF response.kind = "error"
                     THEN /\ qry.error[1].code = Some("envelope_code")
                          /\ qry.error[1].msg = "envelope_value"
                     ELSE /\ qry.error[1].code = None
                          /\ qry.error[1].msg = IF response.kind = "html" THEN "html_text"
                                                ELSE "JSON decoding failed"

\* C19: when download_all was called with checksum true and returns, every
\* path that the result maps to a product info holds a file whose md5 is the
\* one the catalog declares for that product
C19_DownloadedFilesVerified ==
    (caller = "download_all" /\ pc = "returned" /\ args.checksum) =>
        \A p \in DOMAIN loop.result :
            loop.result[p] # None =>
                /\ disk[p].exists
                /\ md5_compare(disk[p], loop.result[p][1].md5)

\* the file has exactly the expected size, check_existing is true and its
\* checksum does not match
CorruptComplete(file, info) ==
    /\ file.exists /\ file.size = info.size
    /\ args.check_existing /\ ~md5_compare(file, info.md5)

\* the file counts as already complete
AcceptedComplete(file, info) ==
    /\ file.exists /\ file.size = info.size
    /\ (~args.check_existing \/ md5_compare(file, info.md5))

\* the file is at or above 2 GiB, was not accepted as complete and the
\* installed pycurl version is flagged as affected
LargeOnAffectedVersion(file, info) ==
    /\ file.exists /\ file.size >= TwoGiB
    /\ ~AcceptedComplete(file, info)
    /\ version_affected(pycurl_version)

\* C20: a step of download makes a file disappear from a path only when it is
\* the examination of the existing file at the target path and that file is
\* (1) of the expected size, check_existing is true and its checksum does not
\* match, or (2) at or above 2 GiB, not accepted as complete, with a pycurl
\* version flagged as affected; and the examination, unless it is interrupted,
\* deletes the file in both situations
C20_DeletedInTwoSituationsOnly ==
    [][\A p \in DOMAIN disk :
          LET deleted == disk[p].exists /\ ~disk'[p].exists
              examined == pc = "check" /\ p = Path(dl.product_info[1].title)
              situation == \/ CorruptComplete(disk[p], dl.product_info[1])
                           \/ LargeOnAffectedVersion(disk[p], dl.product_info[1])
          IN  /\ deleted => (examined /\ situation)
              /\ (examined /\ situation /\ pc' # "raised") => deleted]_vars

\* C20 witness: the workaround has removed a partial file of 2 GiB or more
\* that was found at the target path, and the transfer is about to start
C20_Witness ==
    /\ pc = "transfer"
    /\ hist.removed = "workaround"
    /\ hist.before.exists /\ hist.before.size >= TwoGiB
    /\ hist.before.size # hist.info[1].size
    /\ ~disk[dl.path].exists

====
